---- MODULE Spec2Model ----
(***************************************************************************)
(* A model of emilydotgg-feedback: the channel Router (src/src/router.rs),  *)
(* the SharedRouter reference-counted singleton (src/src/router.rs) and the *)
(* plugin instance Feedback with its render / set_channel paths            *)
(* (src/src/lib.rs).                                                       *)
(*                                                                         *)
(* Three specifications share the module:                                  *)
(*   Spec        the streaming model: two plugin instances of one host     *)
(*               process on one Router, each with its audio (render)       *)
(*               thread and its control (on_message) thread;               *)
(*   SharedSpec  SharedRouter::new_or_open / clone / drop, step by step;    *)
(*   PluginSpec  Feedback::new / drop over the per-process segment.        *)
(*                                                                         *)
(* Sample frames are not stored one by one: the k-th block handed to       *)
(* SyncSender::send is numbered k, its frames are (k,1) .. (k,len), and a   *)
(* VecDeque of frames is kept as the sequence of its maximal runs          *)
(* <<k, lo, hi>> of consecutive frames of one block.                       *)
(***************************************************************************)
EXTENDS Integers, Sequences, FiniteSets, TLC

\* ---------------------------------------------------------------- bounds
\* blocks handed to send() in one behaviour
MaxSends == 11

\* SharedRouter::new_or_open calls in one behaviour
MaxOpens == 3
\* SharedRouter::clone calls in one behaviour
MaxClones == 1
\* Feedback::new calls in one behaviour
MaxNews == 4
\* blocks sent through a guard in one behaviour
MaxQueued == 2
\* blocks sent by the renders that run beside load_state in one behaviour
MaxLoadSends == 1
\* load_state calls in one behaviour
MaxLoads == 2
\* Channels::new() inserted under one id in one behaviour
MaxMade == 2
\* save_state calls in one behaviour
MaxSaves == 1

\* ------------------------------------------------------ program constants
\* mpsc::sync_channel::<T>(10)
Capacity == 10
HIGH_MARK == 4096
LOW_MARK == 256

Endpoints == {"e1", "e2"}
\* the uuids Uuid::new_v4 can return in one behaviour
Ids == {"c1", "c2"}
\* the control messages the control surface sends in one behaviour, in the
\* order the host hands them over: <<instance, message, argument>>
Scripts == {
    << <<"e1", "NewChannel", "none">>, <<"e1", "SetMode", "Sender">>,
       <<"e2", "SelectChannel", "c1">>, <<"e2", "NewChannel", "none">> >> }
\* the control messages of a behaviour that takes one instance through both
\* modes, without and with a selected channel
SaveScripts == {
    << <<"e1", "SetMode", "Sender">>, <<"e1", "NewChannel", "none">>,
       <<"e1", "SetMode", "Receiver">> >> }
\* the lengths of the host's input/output buffers
Lens == {512, 1500}
None == "none"
Free == "free"
Modes == {"Receiver", "Sender"}

VARIABLES
    \* ---- Router / Feedback (Spec)
    channels,   \* _Router.channels: registered id -> queue of blocks
    lock,       \* Router.0: Free or the thread holding the Mutex<_Router>
    mode,       \* Feedback.mode
    uuid,       \* Feedback.uuid
    store,      \* Feedback.store contents (runs of frames)
    storeLock,  \* Feedback.store mutex: Free, "render" or "ctl"
    blockLen,   \* the length of the buffers the host passes to render
    rpc,        \* position of the audio thread inside render
    rch,        \* the id whose MappedMutexGuard the render holds
    cpc,        \* position of the control thread inside on_message
    carg,       \* the uuid argument of the running (or last) set_channel
    \* ---- history (Spec)
    nblocks,    \* blocks enqueued so far
    sentOn,     \* sentOn[k]: <<channel, len>> of block k
    played,     \* runs written to the output by each instance, in order
    fed,        \* channels each instance's fill loop has received from
    clean,      \* no set_channel has discarded a frame yet
    drained,    \* the blocks set_channel has drained from a queue
    nctl,       \* control messages handled so far
    script,     \* the control messages of this behaviour
    solo,       \* nothing has run between the entry of the instance's last
                \* set_channel and now but that set_channel itself
    fillg,      \* the fill step of the running render
    out,        \* what the last step gave the host: the instance, the line
                \* it logged, the frames it wrote to the output buffer
    \* ---- SharedRouter (SharedSpec)
    named,      \* the segment the shared name is linked to (0: none)
    slot,       \* slot[s]: the pointer stored in segment s (0: never written)
    arc,        \* arc[a]: the a-th ArcInner<_SharedRouter>
    hold,       \* hold[p][a]: SharedRouter handles thread p holds on arc a
    ppc,        \* position of thread p inside new_or_open or drop
    pmem,       \* the segment thread p has mapped inside new_or_open
    pptr,       \* the pointer thread p works on
    nopens,     \* new_or_open calls so far
    nclones,    \* clone calls so far
    nrel,       \* handles released so far
    \* ---- Feedback::new / drop (PluginSpec)
    pnamed,     \* the segment "emilydotgg-feedback-<pid>" is linked to (0: none)
    pslot,      \* pslot[s]: the Router the slot of segment s points to
    inst,       \* inst[i]: plugin instance i
    nnews,      \* Feedback::new calls so far
    \* ---- Router called directly, load_state (RouterSpec, LoadSpec)
    made,       \* made[id]: how many Channels::new() were inserted under id
    guard,      \* guard[t]: the MappedMutexGuard caller t holds
    last,       \* the last Router call: caller, operation, id, result
    issued,     \* the ids Router::new_channel has returned, in order
    nloads,     \* load_state calls so far
    \* ---- save_state (SaveSpec)
    saved,      \* the states the host has saved: the instance, its mode and
                \* uuid when save_state was called, the bytes it wrote
    loaded      \* loaded[e]: the saved state instance e was loaded from (0:
                \* none)

svars == <<channels, lock, mode, uuid, store, storeLock, blockLen, rpc, rch,
           cpc, carg, nblocks, sentOn, played, fed, clean, drained, nctl, script,
           solo, fillg, out>>

hvars == <<named, slot, arc, hold, ppc, pmem, pptr, nopens, nclones, nrel>>

pvars == <<pnamed, pslot, inst, nnews>>

rvars == <<made, guard, last, issued, nloads>>

wvars == <<saved, loaded>>

vars == <<svars, hvars, pvars, rvars, wvars>>

\* ------------------------------------------------------------- frame runs
RECURSIVE StoreLen(_)
\* VecDeque::len
StoreLen(s) == IF s = <<>> THEN 0
               ELSE (s[1][3] - s[1][2] + 1) + StoreLen(Tail(s))

\* the frames of one block, as a run
BlockRun(b) == <<b.id, 1, b.len>>

\* a slip: the received frames are put in front of the buffered ones
PushFront(s, b) == <<BlockRun(b)>> \o s

\* for s in samples { store.push_back(s) }
PushBack(s, b) == Append(s, BlockRun(b))

RECURSIVE TakeFront(_, _)
\* the first n frames of s (n <= StoreLen(s)), as runs
TakeFront(s, n) ==
    IF n = 0 \/ s = <<>> THEN <<>>
    ELSE LET r == s[1]
             k == r[3] - r[2] + 1
         IN IF k <= n THEN <<r>> \o TakeFront(Tail(s), n - k)
            ELSE << <<r[1], r[2], r[2] + n - 1>> >>

\* a slip: the frames are read from the front and never popped
NoPop(s, n) == s

RECURSIVE DropFront(_, _)
\* s after n times pop_front (n <= StoreLen(s))
DropFront(s, n) ==
    IF n = 0 \/ s = <<>> THEN s
    ELSE LET r == s[1]
             k == r[3] - r[2] + 1
         IN IF k <= n THEN DropFront(Tail(s), n - k)
            ELSE << <<r[1], r[2] + n, r[3]>> >> \o Tail(s)

RECURSIVE Merge(_)
\* the same frames with adjacent runs of one block joined
Merge(s) ==
    IF Len(s) < 2 THEN s
    ELSE LET a == s[1]
             b == s[2]
         IN IF a[1] = b[1] /\ a[3] + 1 = b[2]
            THEN Merge(<< <<a[1], a[2], b[3]>> >> \o Tail(Tail(s)))
            ELSE <<a>> \o Merge(Tail(s))

RECURSIVE QueueRuns(_)
\* the frames of the blocks of a queue, in order
QueueRuns(q) == IF q = <<>> THEN <<>>
                ELSE <<BlockRun(q[1])>> \o QueueRuns(Tail(q))

RECURSIVE SentRuns(_, _)
\* the frames of the blocks k.. sent on channel c, in send order
SentRuns(c, k) ==
    IF k > nblocks THEN <<>>
    ELSE IF sentOn[k][1] = c
         THEN << <<k, 1, sentOn[k][2]>> >> \o SentRuns(c, k + 1)
         ELSE SentRuns(c, k + 1)

\* ------------------------------------------------------------------ Router
\* HashMap::insert(uuid, Channels::new())
Insert(m, id) == [x \in (DOMAIN m) \cup {id} |-> IF x = id THEN <<>> ELSE m[x]]

Registered == DOMAIN channels

\* a slip: the drain stops before the last queued block
DrainedButLast(q) == IF q = <<>> THEN q ELSE <<q[Len(q)]>>

\* Receiver::try_recv until Err: the queue is left empty
Drained(q) == <<>>

\* VecDeque::clear
Cleared(s) == <<>>

\* the audio thread of instance e, as the holder of a lock
RenderThread(e) == e

\* the host hands instance e the next control message, msg with argument x
Handles(e, msg, x) ==
    /\ nctl < Len(script)
    /\ script[nctl + 1] = <<e, msg, x>>

\* a slip: a fixed id (such as Uuid::nil()) in place of a generated one
FixedUuid == "c1"

\* Uuid::new_v4(): an id not handed out before; the ids are interchangeable
\* and the first is taken first
NewUuid == IF "c1" \notin DOMAIN channels THEN "c1" ELSE "c2"

NoFill == [ran |-> FALSE, took |-> 0, empty |-> FALSE, entry |-> 0]

\* a step that logs nothing and writes no frame
NoOut == [who |-> None, log |-> None, frames |-> <<>>]

\* self.log(format!(..)) by instance e
Logs(e, line) == [who |-> e, log |-> line, frames |-> <<>>]

\* *os = .. for os in output.iter_mut(), by instance e
Writes(e, fr) == [who |-> e, log |-> None, frames |-> fr]

InitScripted(S) ==
    /\ channels = << >>
    /\ lock = Free
    /\ mode = [e \in Endpoints |-> "Receiver"]
    /\ uuid = [e \in Endpoints |-> None]
    /\ store = [e \in Endpoints |-> <<>>]
    /\ storeLock = [e \in Endpoints |-> Free]
    /\ blockLen \in [Endpoints -> Lens]
    /\ rpc = [e \in Endpoints |-> "idle"]
    /\ rch = [e \in Endpoints |-> None]
    /\ cpc = [e \in Endpoints |-> "idle"]
    /\ carg = [e \in Endpoints |-> None]
    /\ nblocks = 0
    /\ sentOn = <<>>
    /\ played = [e \in Endpoints |-> <<>>]
    /\ fed = [e \in Endpoints |-> {}]
    /\ clean = TRUE
    /\ drained = {}
    /\ nctl = 0
    /\ script \in S
    /\ solo = [e \in Endpoints |-> FALSE]
    /\ fillg = [e \in Endpoints |-> NoFill]
    /\ out = NoOut

InitStream == InitScripted(Scripts)

\* ------------------------------------------------- render, Mode::Receiver
\* store.len() < LOW_MARK
BelowLow(s) == StoreLen(s) < LOW_MARK

\* a slip: the loop tests the low mark where it means the high one
BelowHighAsLow(s) == StoreLen(s) < LOW_MARK

\* store.len() < HIGH_MARK
BelowHigh(s) == StoreLen(s) < HIGH_MARK

\* a slip: a buffer holding exactly the requested frames counts as short
UnderrunOrEqual(s, n) == StoreLen(s) <= n

\* store.len() < output.len()
Underrun(s, n) == StoreLen(s) < n

RECURSIVE FillLoop(_, _, _)
\* while store.len() < HIGH_MARK { match rx.try_recv() {
\*     Ok(samples) => push them, Err(_) => break } }
\* from store s, queue q and k blocks taken: the store, the queue, the blocks
\* taken, and whether the loop ended on a try_recv that found the queue empty
FillLoop(s, q, k) ==
    IF ~BelowHigh(s) THEN [store |-> s, queue |-> q, took |-> k, empty |-> FALSE]
    ELSE IF q = <<>> THEN [store |-> s, queue |-> q, took |-> k, empty |-> TRUE]
    ELSE FillLoop(PushBack(s, Head(q)), Tail(q), k + 1)

SoloNone == solo' = [f \in Endpoints |-> FALSE]

\* a slip: with no channel selected the first registered one is used
SelectedOrFirst(e) ==
    IF uuid[e] # None THEN uuid[e]
    ELSE IF "c1" \in DOMAIN channels THEN "c1" ELSE None

\* self.uuid.as_ref(): the id the render looks up, None when none is selected
Selected(e) == uuid[e]

\* match self.mode { Mode::Receiver => { let mut store = self.store.lock();
\* and the read of self.uuid that follows it
RecvBegin(e) ==
    /\ rpc[e] = "idle"
    /\ mode[e] = "Receiver"
    /\ storeLock[e] = Free
    /\ storeLock' = [storeLock EXCEPT ![e] = "render"]
    /\ rch' = [rch EXCEPT ![e] = Selected(e)]
    /\ rpc' = [rpc EXCEPT ![e] = "fill"]
    /\ fillg' = [fillg EXCEPT ![e] = [NoFill EXCEPT !.entry = StoreLen(store[e])]]
    /\ SoloNone
    /\ out' = NoOut
    /\ UNCHANGED <<channels, lock, mode, uuid, store, blockLen, cpc, carg,
                   nblocks, sentOn, played, fed, clean, drained, nctl, script,
                   hvars, pvars, rvars, wvars>>

\* if let Some(rx) = ..self.router().rx(uuid) { if store.len() < LOW_MARK {
\* while .. } } else { log }: the registry lock is taken by rx() and held
\* by the MappedMutexGuard until the end of the if let
RecvFill(e) ==
    /\ rpc[e] = "fill"
    /\ IF rch[e] = None
       THEN UNCHANGED <<channels, store, fed, fillg>>
       ELSE /\ lock = Free
            /\ IF rch[e] \in Registered /\ BelowLow(store[e])
               THEN LET r == FillLoop(store[e], channels[rch[e]], 0)
                    IN /\ store' = [store EXCEPT ![e] = r.store]
                       /\ channels' = [channels EXCEPT ![rch[e]] = r.queue]
                       /\ fed' = [fed EXCEPT
                              ![e] = IF r.took > 0 THEN @ \cup {rch[e]} ELSE @]
                       /\ fillg' = [fillg EXCEPT ![e].ran = TRUE,
                                                 ![e].took = r.took,
                                                 ![e].empty = r.empty]
               ELSE UNCHANGED <<channels, store, fed, fillg>>
    /\ rpc' = [rpc EXCEPT ![e] = "out"]
    /\ out' = IF rch[e] \in Registered THEN NoOut ELSE Logs(e, "no rx?")
    /\ SoloNone
    /\ UNCHANGED <<lock, mode, uuid, storeLock, blockLen, rch, cpc, carg,
                   nblocks, sentOn, played, clean, drained, nctl, script,
                   hvars, pvars, rvars, wvars>>

\* if store.len() < output.len() { log; return } else { pop_front .. }
RecvOut(e) ==
    /\ rpc[e] = "out"
    /\ IF Underrun(store[e], blockLen[e])
       THEN /\ out' = Logs(e, "underrun")
            /\ UNCHANGED <<store, played>>
       ELSE /\ out' = Writes(e, TakeFront(store[e], blockLen[e]))
            /\ played' = [played EXCEPT
                             ![e] = Merge(@ \o TakeFront(store[e], blockLen[e]))]
            /\ store' = [store EXCEPT ![e] = DropFront(@, blockLen[e])]
    /\ storeLock' = [storeLock EXCEPT ![e] = Free]
    /\ rch' = [rch EXCEPT ![e] = None]
    /\ rpc' = [rpc EXCEPT ![e] = "idle"]
    /\ fillg' = [fillg EXCEPT ![e] = NoFill]
    /\ SoloNone
    /\ UNCHANGED <<channels, lock, mode, uuid, blockLen, cpc, carg,
                   nblocks, sentOn, fed, clean, drained, nctl, script,
                   hvars, pvars, rvars, wvars>>

\* --------------------------------------------------- render, Mode::Sender
\* a slip: a buffer holding exactly its bound still counts as having room
HasRoomAtBound(q) == Len(q) <= Capacity

\* SyncSender::send has room: the buffer holds fewer than its bound
HasRoom(q) == Len(q) < Capacity

\* match self.mode { Mode::Sender => .. and the read of self.uuid
SendBegin(e) ==
    /\ rpc[e] = "idle"
    /\ mode[e] = "Sender"
    /\ nblocks < MaxSends
    /\ rch' = [rch EXCEPT ![e] = Selected(e)]
    /\ rpc' = [rpc EXCEPT ![e] = "tx"]
    /\ SoloNone
    /\ out' = NoOut
    /\ UNCHANGED <<channels, lock, mode, uuid, store, storeLock, blockLen,
                   cpc, carg, nblocks, sentOn, played, fed, clean, drained, nctl, fillg, script,
                   hvars, pvars, rvars, wvars>>

\* if let Some(tx) = ..self.router().tx(uuid) { tx.send(Vec::from(input)).unwrap() }
\* the registry lock is taken by tx() and held by the MappedMutexGuard over
\* send(); send() enqueues the block when the buffer has room and otherwise
\* parks the thread, the guard still held, until it has
SendSend(e) ==
    /\ \/ rpc[e] = "tx" /\ lock = Free
       \/ rpc[e] = "parked" /\ lock = RenderThread(e) /\ HasRoom(channels[rch[e]])
    /\ IF rch[e] \in Registered
       THEN IF HasRoom(channels[rch[e]])
            THEN /\ channels' = [channels EXCEPT
                      ![rch[e]] = Append(@, [id |-> nblocks + 1, len |-> blockLen[e]])]
                 /\ nblocks' = nblocks + 1
                 /\ sentOn' = Append(sentOn, <<rch[e], blockLen[e]>>)
                 /\ lock' = Free
                 /\ rch' = [rch EXCEPT ![e] = None]
                 /\ rpc' = [rpc EXCEPT ![e] = "idle"]
            ELSE /\ lock' = RenderThread(e)
                 /\ rpc' = [rpc EXCEPT ![e] = "parked"]
                 /\ UNCHANGED <<channels, nblocks, sentOn, rch>>
       ELSE /\ rch' = [rch EXCEPT ![e] = None]
            /\ rpc' = [rpc EXCEPT ![e] = "idle"]
            /\ UNCHANGED <<channels, nblocks, sentOn, lock>>
    /\ SoloNone
    /\ out' = NoOut
    /\ UNCHANGED <<mode, uuid, store, storeLock, blockLen, cpc, carg, played,
                   fed, clean, drained, nctl, fillg, script,
                   hvars, pvars, rvars, wvars>>

\* ------------------------------------------------ on_message, set_channel
SoloStep(e, v) == solo' = [f \in Endpoints |-> IF f = e THEN v ELSE FALSE]

\* ui::PluginMessage::SetMode(mode) => self.mode = mode
CtlSetMode(e, m) ==
    /\ cpc[e] = "idle"
    /\ Handles(e, "SetMode", m)
    /\ mode' = [mode EXCEPT ![e] = m]
    /\ nctl' = nctl + 1
    /\ SoloStep(e, FALSE)
    /\ out' = NoOut
    /\ UNCHANGED <<channels, lock, uuid, store, storeLock, blockLen, rpc, rch,
                   cpc, carg, nblocks, sentOn, played, fed, clean, drained, fillg, script,
                   hvars, pvars, rvars, wvars>>

\* ui::PluginMessage::NewChannel: let id = self.router().new_channel();
\* then set_channel(id) is entered
CtlNewChannel(e) ==
    /\ cpc[e] = "idle"
    /\ Handles(e, "NewChannel", None)
    /\ lock = Free
    /\ Registered # Ids
    /\ channels' = Insert(channels, NewUuid)
    /\ carg' = [carg EXCEPT ![e] = NewUuid]
    /\ cpc' = [cpc EXCEPT ![e] = "sc_clear"]
    /\ nctl' = nctl + 1
    /\ SoloStep(e, TRUE)
    /\ out' = NoOut
    /\ UNCHANGED <<lock, mode, uuid, store, storeLock, blockLen, rpc, rch,
                   nblocks, sentOn, played, fed, clean, drained, fillg, script,
                   hvars, pvars, rvars, wvars>>

\* ui::PluginMessage::SelectChannel(id) => self.set_channel(id), with an id
\* of the list the picker was given
CtlSelect(e, id) ==
    /\ cpc[e] = "idle"
    /\ Handles(e, "SelectChannel", id)
    /\ id \in Registered
    /\ carg' = [carg EXCEPT ![e] = id]
    /\ cpc' = [cpc EXCEPT ![e] = "sc_clear"]
    /\ nctl' = nctl + 1
    /\ SoloStep(e, TRUE)
    /\ out' = NoOut
    /\ UNCHANGED <<channels, lock, mode, uuid, store, storeLock, blockLen, rpc,
                   rch, nblocks, sentOn, played, fed, clean, drained, fillg, script,
                   hvars, pvars, rvars, wvars>>

\* self.store.lock().clear();
ScClear(e) ==
    /\ cpc[e] = "sc_clear"
    /\ storeLock[e] = Free
    /\ store' = [store EXCEPT ![e] = Cleared(@)]
    /\ clean' = (clean /\ store[e] = <<>>)
    /\ cpc' = [cpc EXCEPT ![e] = "sc_drain"]
    /\ SoloStep(e, solo[e])
    /\ out' = NoOut
    /\ UNCHANGED <<channels, lock, mode, uuid, storeLock, blockLen, rpc, rch,
                   carg, nblocks, sentOn, played, fed, drained, nctl, fillg, script,
                   hvars, pvars, rvars, wvars>>

\* self.router().rx(&uuid).map(|c| while let Ok(_) = c.try_recv() {});
ScDrain(e) ==
    /\ cpc[e] = "sc_drain"
    /\ lock = Free
    /\ IF carg[e] \in Registered
       THEN /\ channels' = [channels EXCEPT ![carg[e]] = Drained(@)]
            /\ clean' = (clean /\ channels[carg[e]] = <<>>)
            /\ drained' = drained \cup
                   ({channels[carg[e]][i].id : i \in 1..Len(channels[carg[e]])}
                    \ {channels'[carg[e]][i].id : i \in 1..Len(channels'[carg[e]])})
       ELSE UNCHANGED <<channels, clean, drained>>
    /\ cpc' = [cpc EXCEPT ![e] = "sc_set"]
    /\ SoloStep(e, solo[e])
    /\ out' = NoOut
    /\ UNCHANGED <<lock, mode, uuid, store, storeLock, blockLen, rpc, rch,
                   carg, nblocks, sentOn, played, fed, nctl, fillg, script,
                   hvars, pvars, rvars, wvars>>

\* self.uuid = Some(uuid); self.send_channel_id();
ScSet(e) ==
    /\ cpc[e] = "sc_set"
    /\ uuid' = [uuid EXCEPT ![e] = carg[e]]
    /\ cpc' = [cpc EXCEPT ![e] = "idle"]
    /\ SoloStep(e, solo[e])
    /\ out' = NoOut
    /\ UNCHANGED <<channels, lock, mode, store, storeLock, blockLen, rpc, rch,
                   carg, nblocks, sentOn, played, fed, clean, drained, nctl, fillg, script,
                   hvars, pvars, rvars, wvars>>

\* ============================================================ SharedRouter
\* the threads that call SharedRouter::new_or_open, clone and drop
Threads == {"p1", "p2", "p3"}
Segments == 1..MaxOpens
ArcIds == 1..MaxOpens
\* what a *const _SharedRouter read from a slot can be: an ArcInner, or the
\* zero of a segment nobody has written yet
Null == 0

InitShared ==
    /\ named = 0
    /\ slot = [s \in Segments |-> Null]
    /\ arc = <<>>
    /\ hold = [p \in Threads |-> [a \in ArcIds \cup {Null} |-> 0]]
    /\ ppc = [p \in Threads |-> "idle"]
    /\ pmem = [p \in Threads |-> 0]
    /\ pptr = [p \in Threads |-> Null]
    /\ nopens = 0
    /\ nclones = 0
    /\ nrel = 0

\* the Router inside ArcInner a has not begun to be dropped
Alive(a) == a \in 1..Len(arc) /\ arc[a].state = "live"

\* Arc::new(_SharedRouter(Some((Router::new(), memory)))) on segment s:
\* strong = 1; Arc::downgrade adds the weak that into_raw leaks into the slot
NewArc(s) == [strong |-> 1, state |-> "live", seg |-> s, drops |-> 0]

\* if let Ok(memory) = config.create() { .. } else { .. }: create-exclusive
\* on the shared name
OpenBegin(p) ==
    /\ ppc[p] = "idle"
    /\ nopens < MaxOpens
    /\ nopens' = nopens + 1
    /\ IF named = 0
       THEN /\ named' = Len(arc) + 1
            /\ arc' = Append(arc, NewArc(Len(arc) + 1))
            /\ pptr' = [pptr EXCEPT ![p] = Len(arc) + 1]
            /\ ppc' = [ppc EXCEPT ![p] = "c_store"]
       ELSE /\ ppc' = [ppc EXCEPT ![p] = "j_open"]
            /\ UNCHANGED <<named, arc, pptr>>
    /\ UNCHANGED <<slot, hold, pmem, nclones, nrel, svars, pvars, rvars, wvars>>

\* *transmute(mem_ptr) = weak.into_raw(); SharedRouter(inner)
CreateStore(p) ==
    /\ ppc[p] = "c_store"
    /\ slot' = [slot EXCEPT ![arc[pptr[p]].seg] = pptr[p]]
    /\ hold' = [hold EXCEPT ![p][pptr[p]] = @ + 1]
    /\ ppc' = [ppc EXCEPT ![p] = "idle"]
    /\ UNCHANGED <<named, arc, pmem, pptr, nopens, nclones, nrel, svars, pvars, rvars, wvars>>

\* let memory = open_config.open().unwrap(): panics when the name is gone
JoinOpen(p) ==
    /\ ppc[p] = "j_open"
    /\ IF named = 0
       THEN /\ ppc' = [ppc EXCEPT ![p] = "panicked"]
            /\ UNCHANGED pmem
       ELSE /\ pmem' = [pmem EXCEPT ![p] = named]
            /\ ppc' = [ppc EXCEPT ![p] = "j_read"]
    /\ UNCHANGED <<named, slot, arc, hold, pptr, nopens, nclones, nrel, svars, pvars, rvars, wvars>>

\* let ptr = *(memory.as_ptr() as *mut *const _SharedRouter);
JoinRead(p) ==
    /\ ppc[p] = "j_read"
    /\ pptr' = [pptr EXCEPT ![p] = slot[pmem[p]]]
    /\ ppc' = [ppc EXCEPT ![p] = "j_inc"]
    /\ UNCHANGED <<named, slot, arc, hold, pmem, nopens, nclones, nrel, svars, pvars, rvars, wvars>>

\* Arc::increment_strong_count(ptr); let inner = Arc::from_raw(ptr);
\* On a live ArcInner the count goes up and the handle is returned. On a
\* null pointer or an ArcInner being dropped or freed the behaviour is
\* undefined: the call crashes, or it returns a handle on that memory.
JoinInc(p) ==
    /\ ppc[p] = "j_inc"
    /\ pmem' = [pmem EXCEPT ![p] = 0]
    /\ \/ /\ pptr[p] # Null
          /\ arc' = [arc EXCEPT ![pptr[p]].strong = @ + 1]
          /\ hold' = [hold EXCEPT ![p][pptr[p]] = @ + 1]
          /\ ppc' = [ppc EXCEPT ![p] = "idle"]
       \/ /\ pptr[p] = Null
          /\ hold' = [hold EXCEPT ![p][Null] = @ + 1]
          /\ ppc' = [ppc EXCEPT ![p] = "idle"]
          /\ UNCHANGED arc
       \/ /\ ~Alive(pptr[p])
          /\ ppc' = [ppc EXCEPT ![p] = "crashed"]
          /\ UNCHANGED <<arc, hold>>
    /\ UNCHANGED <<named, slot, pptr, nopens, nclones, nrel, svars, pvars, rvars, wvars>>

\* #[derive(Clone)] on SharedRouter(Arc<_SharedRouter>): Arc::clone
Clone(p, a) ==
    /\ ppc[p] = "idle"
    /\ nclones < MaxClones
    /\ a # Null
    /\ hold[p][a] > 0
    /\ nclones' = nclones + 1
    /\ arc' = [arc EXCEPT ![a].strong = @ + 1]
    /\ hold' = [hold EXCEPT ![p][a] = @ + 1]
    /\ UNCHANGED <<named, slot, ppc, pmem, pptr, nopens, nrel, svars, pvars, rvars, wvars>>

\* drop of a SharedRouter: Arc::drop decrements strong; the thread that
\* brings it to zero goes on to drop the _SharedRouter
Release(p, a) ==
    /\ ppc[p] = "idle"
    /\ a # Null
    /\ hold[p][a] > 0
    /\ hold' = [hold EXCEPT ![p][a] = @ - 1]
    /\ nrel' = nrel + 1
    /\ IF arc[a].strong = 1
       THEN /\ arc' = [arc EXCEPT ![a].strong = 0, ![a].state = "dying"]
            /\ pptr' = [pptr EXCEPT ![p] = a]
            /\ ppc' = [ppc EXCEPT ![p] = "d_drop"]
       ELSE /\ arc' = [arc EXCEPT ![a].strong = @ - 1]
            /\ UNCHANGED <<pptr, ppc>>
    /\ UNCHANGED <<named, slot, pmem, nopens, nclones, svars, pvars, rvars, wvars>>

\* Drop for _SharedRouter without shmem.set_owner(true): the segment is
\* unmapped but its name is left behind
DropSharedKeepsName(p) ==
    /\ ppc[p] = "d_drop"
    /\ arc' = [arc EXCEPT ![pptr[p]].state = "freed", ![pptr[p]].drops = @ + 1]
    /\ ppc' = [ppc EXCEPT ![p] = "idle"]
    /\ UNCHANGED <<named, slot, hold, pmem, pptr, nopens, nclones, nrel, svars, pvars, rvars, wvars>>

\* Drop for _SharedRouter: take the Router and the Shmem, set_owner(true),
\* drop the Weak read back from the slot, drop(shmem) (the owner unlinks the
\* name), then the Router goes; the ArcInner is freed after it
DropShared(p) ==
    /\ ppc[p] = "d_drop"
    /\ named' = IF named = arc[pptr[p]].seg THEN 0 ELSE named
    /\ arc' = [arc EXCEPT ![pptr[p]].state = "freed", ![pptr[p]].drops = @ + 1]
    /\ ppc' = [ppc EXCEPT ![p] = "idle"]
    /\ UNCHANGED <<slot, hold, pmem, pptr, nopens, nclones, nrel, svars, pvars, rvars, wvars>>

SharedNext ==
    \E p \in Threads :
        \/ OpenBegin(p)
        \/ CreateStore(p)
        \/ JoinOpen(p)
        \/ JoinRead(p)
        \/ JoinInc(p)
        \/ \E a \in ArcIds : Clone(p, a)
        \/ \E a \in ArcIds : Release(p, a)
        \/ DropShared(p)

\* ====================================================== Feedback::new / drop
Instances == {"i1", "i2", "i3"}

InitPlugin ==
    /\ pnamed = 0
    /\ pslot = <<>>
    /\ inst = [i \in Instances |-> [state |-> "none", seg |-> 0, owner |-> FALSE]]
    /\ nnews = 0

\* Feedback::new: config.create() succeeds when the name is free (a Router is
\* constructed and leaked by Box::leak, its address stored in the slot - the
\* k-th segment points to the k-th Router - and memory.set_owner(true));
\* otherwise open_config.open().unwrap()
FeedbackNew(i) ==
    /\ inst[i].state # "alive"
    /\ nnews < MaxNews
    /\ nnews' = nnews + 1
    /\ IF pnamed = 0
       THEN /\ pslot' = Append(pslot, Len(pslot) + 1)
            /\ pnamed' = Len(pslot) + 1
            /\ inst' = [inst EXCEPT ![i] = [state |-> "alive",
                                            seg |-> Len(pslot) + 1,
                                            owner |-> TRUE]]
       ELSE /\ inst' = [inst EXCEPT ![i] = [state |-> "alive",
                                            seg |-> pnamed,
                                            owner |-> FALSE]]
            /\ UNCHANGED <<pslot, pnamed>>
    /\ UNCHANGED <<svars, hvars, rvars, wvars>>

\* Drop for Feedback, then the drop of its fields: the Shmem is unmapped and,
\* when this instance is the owner, the name is unlinked
FeedbackDrop(i) ==
    /\ inst[i].state = "alive"
    /\ inst' = [inst EXCEPT ![i] = [state |-> "dropped", seg |-> 0, owner |-> FALSE]]
    /\ pnamed' = IF inst[i].owner /\ pnamed = inst[i].seg THEN 0 ELSE pnamed
    /\ UNCHANGED <<pslot, nnews, svars, hvars, rvars, wvars>>

\* Feedback::router(): the Router the instance's mapped slot points to
RouterOf(i) == pslot[inst[i].seg]

PluginNext == \E i \in Instances : FeedbackNew(i) \/ FeedbackDrop(i)

\* ================================================== Router, called directly
\* the threads that call the Router's public methods
Callers == {"t1", "t2"}
\* the lengths of the blocks a caller sends
CallLens == {512}

\* the state of the plugin instances, which a direct Router call leaves alone
evars == <<mode, uuid, store, storeLock, blockLen, rpc, rch, cpc, carg,
           played, fed, clean, drained, nctl, script, solo, fillg, out>>

\* no MappedMutexGuard held
NoGuard == [id |-> None, side |-> None]

NoCall == [who |-> None, op |-> None, id |-> None, res |-> None]

Called(t, op, id, res) == [who |-> t, op |-> op, id |-> id, res |-> res]

InitRouter ==
    /\ made = [id \in Ids |-> 0]
    /\ guard = [t \in Callers |-> NoGuard]
    /\ last = NoCall
    /\ issued = <<>>
    /\ nloads = 0

\* _Router::channel: self.channels.get_mut(uuid), the entry or None
Channel(m, id) == IF id \in DOMAIN m THEN id ELSE None

\* a slip: the guard taken for the lookup is kept when the lookup misses
TryMapKeeps(t, r) == t

\* MutexGuard::try_map(self.0.lock(), |s| s.channel(uuid)).ok(): who holds
\* the registry lock afterwards, locked by t with lookup result r
TryMap(t, r) == IF r = None THEN Free ELSE t

\* Router::new_channel: self.0.lock().new_channel()
RouterNewChannel(t) ==
    /\ guard[t] = NoGuard
    /\ lock = Free
    /\ Registered # Ids
    /\ channels' = Insert(channels, NewUuid)
    /\ made' = [made EXCEPT ![NewUuid] = @ + 1]
    /\ issued' = Append(issued, NewUuid)
    /\ last' = Called(t, "new_channel", None, NewUuid)
    /\ UNCHANGED <<lock, nblocks, sentOn, evars, guard, nloads, hvars, pvars, wvars>>

\* Router::new_channel_with_id: self.0.lock().new_channel_with_id(uuid)
RouterNewChannelWithId(t, id) ==
    /\ guard[t] = NoGuard
    /\ lock = Free
    /\ made[id] < MaxMade
    /\ channels' = Insert(channels, id)
    /\ made' = [made EXCEPT ![id] = @ + 1]
    /\ last' = Called(t, "new_channel_with_id", id, None)
    /\ UNCHANGED <<lock, nblocks, sentOn, evars, guard, issued, nloads,
                   hvars, pvars, wvars>>

\* Router::channel, Router::rx, Router::tx: the guard mapped to the entry
\* (or to its receiver, or to its sender), or nothing
RouterLookup(t, op, id) ==
    /\ guard[t] = NoGuard
    /\ lock = Free
    /\ lock' = TryMap(t, Channel(channels, id))
    /\ guard' = [guard EXCEPT ![t] = IF Channel(channels, id) = None THEN NoGuard
                                     ELSE [id |-> id, side |-> op]]
    /\ last' = Called(t, op, id, Channel(channels, id))
    /\ UNCHANGED <<channels, nblocks, sentOn, evars, made, issued, nloads,
                   hvars, pvars, wvars>>

\* Router::ids
RouterIds(t) ==
    /\ guard[t] = NoGuard
    /\ lock = Free
    /\ last' = Called(t, "ids", None, Registered)
    /\ UNCHANGED <<channels, lock, nblocks, sentOn, evars, made, guard, issued,
                   nloads, hvars, pvars, wvars>>

\* SyncSender::send through a guard on the sender, the buffer having room
GuardSend(t, n) ==
    /\ guard[t] # NoGuard
    /\ guard[t].side \in {"tx", "channel"}
    /\ nblocks < MaxQueued
    /\ HasRoom(channels[guard[t].id])
    /\ channels' = [channels EXCEPT
                       ![guard[t].id] = Append(@, [id |-> nblocks + 1, len |-> n])]
    /\ nblocks' = nblocks + 1
    /\ sentOn' = Append(sentOn, <<guard[t].id, n>>)
    /\ last' = Called(t, "send", guard[t].id, None)
    /\ UNCHANGED <<lock, evars, made, guard, issued, nloads, hvars, pvars, wvars>>

\* Receiver::try_recv through a guard on the receiver
GuardTryRecv(t) ==
    /\ guard[t] # NoGuard
    /\ guard[t].side \in {"rx", "channel"}
    /\ LET q == channels[guard[t].id]
       IN /\ channels' = [channels EXCEPT
                             ![guard[t].id] = IF q = <<>> THEN q ELSE Tail(q)]
          /\ last' = Called(t, "try_recv", guard[t].id,
                            IF q = <<>> THEN None ELSE Head(q).id)
    /\ UNCHANGED <<lock, nblocks, sentOn, evars, made, guard, issued, nloads,
                   hvars, pvars, wvars>>

\* the MappedMutexGuard goes out of scope
GuardDrop(t) ==
    /\ guard[t] # NoGuard
    /\ lock' = Free
    /\ guard' = [guard EXCEPT ![t] = NoGuard]
    /\ last' = Called(t, "drop", guard[t].id, None)
    /\ UNCHANGED <<channels, nblocks, sentOn, evars, made, issued, nloads,
                   hvars, pvars, wvars>>

RouterNext ==
    \E t \in Callers :
        \/ RouterNewChannel(t)
        \/ \E id \in Ids : RouterNewChannelWithId(t, id)
        \/ \E op \in {"channel", "rx", "tx"}, id \in Ids : RouterLookup(t, op, id)
        \/ RouterIds(t)
        \/ \E n \in CallLens : GuardSend(t, n)
        \/ GuardTryRecv(t)
        \/ GuardDrop(t)

\* ============================================================== load_state
\* the ids found in the persisted states of the session being loaded
SavedIds == {"c1"}

\* the byte blobs the host hands to load_state: a serialized SaveState::Ver1,
\* a truncated one, and bytes that are no SaveState
Blobs == {<<"Ver1", m, id>> : m \in Modes, id \in SavedIds}
             \cup {<<"Ver1", "Sender">>, <<"junk">>}

\* the Err of a deserialization
Err == [ok |-> FALSE, mode |-> None, uuid |-> None]

\* bincode::deserialize::<SaveState>(&buf)
Deserialize(b) ==
    IF Len(b) = 3 /\ b[1] = "Ver1"
    THEN [ok |-> TRUE, mode |-> b[2], uuid |-> b[3]]
    ELSE Err

\* load_state up to the match on the deserialized value: a blob that does
\* not deserialize is logged and nothing else happens; otherwise self.mode is
\* set and the lookup of the channel comes next. Which saved state the bytes
\* came from (loaded) is the host's to record.
LoadState(e, b) ==
    /\ cpc[e] = "idle"
    /\ nloads < MaxLoads
    /\ nloads' = nloads + 1
    /\ last' = Called(e, "load_state", None, Deserialize(b).ok)
    /\ IF Deserialize(b) = Err
       THEN /\ out' = Logs(e, "error reading state")
            /\ UNCHANGED <<mode, carg, cpc>>
       ELSE /\ mode' = [mode EXCEPT ![e] = Deserialize(b).mode]
            /\ carg' = [carg EXCEPT ![e] = Deserialize(b).uuid]
            /\ cpc' = [cpc EXCEPT ![e] = "ld_check"]
            /\ out' = NoOut
    /\ SoloStep(e, FALSE)
    /\ UNCHANGED <<channels, lock, uuid, store, storeLock, blockLen, rpc, rch,
                   nblocks, sentOn, played, fed, clean, drained, nctl, script,
                   fillg, made, guard, issued, hvars, pvars, saved>>

\* if let None = self.router().channel(&uuid) { .. }: the registry lock is
\* taken for the lookup and released before what follows
LdCheck(e) ==
    /\ cpc[e] = "ld_check"
    /\ lock = Free
    /\ cpc' = [cpc EXCEPT ![e] = IF Channel(channels, carg[e]) = None
                                 THEN "ld_create" ELSE "sc_clear"]
    /\ SoloStep(e, Channel(channels, carg[e]) # None)
    /\ out' = NoOut
    /\ UNCHANGED <<channels, lock, mode, uuid, store, storeLock, blockLen, rpc,
                   rch, carg, nblocks, sentOn, played, fed, clean, drained,
                   nctl, script, fillg, rvars, hvars, pvars, wvars>>

\* self.router().new_channel_with_id(&uuid); then set_channel is entered
LdCreate(e) ==
    /\ cpc[e] = "ld_create"
    /\ lock = Free
    /\ channels' = Insert(channels, carg[e])
    /\ made' = [made EXCEPT ![carg[e]] = @ + 1]
    /\ cpc' = [cpc EXCEPT ![e] = "sc_clear"]
    /\ SoloStep(e, TRUE)
    /\ out' = NoOut
    /\ UNCHANGED <<lock, mode, uuid, store, storeLock, blockLen, rpc, rch,
                   carg, nblocks, sentOn, played, fed, clean, drained, nctl,
                   script, fillg, guard, last, issued, nloads, hvars, pvars, wvars>>

LoadNext ==
    \E e \in Endpoints :
        \/ \E b \in Blobs : (LoadState(e, b) /\ UNCHANGED loaded)
        \/ LdCheck(e)
        \/ LdCreate(e)
        \/ ScClear(e)
        \/ ScDrain(e)
        \/ ScSet(e)
        \/ RecvBegin(e)
        \/ RecvFill(e)
        \/ RecvOut(e)
        \/ (nblocks < MaxLoadSends /\ SendBegin(e))
        \/ SendSend(e)

\* ============================================================== save_state
InitSave ==
    /\ saved = <<>>
    /\ loaded = [e \in Endpoints |-> 0]

\* bincode::serialize_into(writer, &SaveState::Ver1 { mode, uuid })
Serialize(m, u) == <<"Ver1", m, u>>

\* what save_state writes for an instance with mode m and self.uuid u:
\* if let Some(uuid) = self.uuid { serialize_into(..) }, else nothing
SaveBytes(m, u) == IF u # None THEN Serialize(m, u) ELSE <<>>

\* save_state, called by the host on instance e between two messages
SaveState(e) ==
    /\ cpc[e] = "idle"
    /\ Len(saved) < MaxSaves
    /\ saved' = Append(saved, [by |-> e, mode |-> mode[e], uuid |-> uuid[e],
                               bytes |-> SaveBytes(mode[e], uuid[e])])
    /\ UNCHANGED <<svars, hvars, pvars, rvars, loaded>>

\* instance e is as Feedback::new left it and the control surface sends it
\* nothing
Fresh(e) ==
    /\ mode[e] = "Receiver"
    /\ uuid[e] = None
    /\ store[e] = <<>>
    /\ loaded[e] = 0
    /\ \A k \in 1..Len(script) : script[k][1] # e

\* the host restores instance e from the k-th saved state: load_state on
\* the bytes save_state wrote
LoadSaved(e, k) ==
    /\ Fresh(e)
    /\ k \in 1..Len(saved)
    /\ loaded' = [loaded EXCEPT ![e] = k]
    /\ LoadState(e, saved[k].bytes)

SaveNext ==
    \E e \in Endpoints :
        \/ \E m \in Modes : CtlSetMode(e, m)
        \/ CtlNewChannel(e)
        \/ SaveState(e)
        \/ \E k \in 1..MaxSaves : LoadSaved(e, k)
        \/ LdCheck(e)
        \/ ScClear(e)
        \/ ScDrain(e)
        \/ ScSet(e)
        \/ RecvBegin(e)
        \/ RecvFill(e)
        \/ RecvOut(e)
        \/ (nblocks < MaxLoadSends /\ SendBegin(e))
        \/ SendSend(e)

Init == InitStream /\ InitShared /\ InitPlugin /\ InitRouter /\ InitSave

SaveInit ==
    InitScripted(SaveScripts) /\ InitShared /\ InitPlugin /\ InitRouter
    /\ InitSave


Next ==
    \E e \in Endpoints :
        \/ RecvBegin(e)
        \/ RecvFill(e)
        \/ RecvOut(e)
        \/ SendBegin(e)
        \/ SendSend(e)
        \/ \E m \in Modes : CtlSetMode(e, m)
        \/ CtlNewChannel(e)
        \/ \E id \in Ids : CtlSelect(e, id)
        \/ ScClear(e)
        \/ ScDrain(e)
        \/ ScSet(e)

Spec == Init /\ [][Next]_vars

SharedSpec == Init /\ [][SharedNext]_vars

PluginSpec == Init /\ [][PluginNext]_vars

RouterSpec == Init /\ [][RouterNext]_vars

LoadSpec == Init /\ [][LoadNext]_vars

SaveSpec == SaveInit /\ [][SaveNext]_vars

\* the host keeps calling render on every instance, and a set_channel that
\* was entered runs on; when the control surface sends a message is up to
\* the user
LiveSpec ==
    /\ Init
    /\ [][Next]_vars
    /\ \A e \in Endpoints :
          /\ WF_vars(RecvBegin(e))
          /\ WF_vars(RecvFill(e))
          /\ WF_vars(RecvOut(e))
          /\ WF_vars(SendBegin(e))
          /\ WF_vars(SendSend(e))
          /\ WF_vars(ScClear(e))
          /\ WF_vars(ScDrain(e))
          /\ WF_vars(ScSet(e))

\* ================================================================= claims
\* the frames in an instance's buffer that were sent on another channel
\* than c
Stale(e, c) == {i \in 1..Len(store[e]) : sentOn[store[e][i][1]][1] # c}

\* the blocks some frame of which has been written to an output
PlayedBlocks ==
    UNION {{played[e][i][1] : i \in 1..Len(played[e])} : e \in Endpoints}

\* instance e is about to take, or waits for, the registry lock
WantsRegistry(e) ==
    \/ rpc[e] = "fill" /\ rch[e] # None
    \/ rpc[e] = "tx"
    \/ cpc[e] = "sc_drain"

\* C1: a Sender render on a channel whose queue holds Capacity blocks
\* returns without waiting (the render thread is idle again after its send
\* step, the registry lock released) and the queue is left as it was.
C1_FullSendReturns ==
    [][\A e \in Endpoints :
          (/\ rpc[e] = "tx"
           /\ rpc'[e] # "tx"
           /\ rch[e] \in Registered
           /\ Len(channels[rch[e]]) = Capacity)
          => (/\ rpc'[e] = "idle"
              /\ lock' = Free
              /\ channels' = channels)]_vars

\* C2: no instance is kept waiting for the registry lock by another
\* instance's render that holds it while it waits to transfer a block.
C2_RegistryNeverStalled ==
    \A e \in Endpoints, f \in Endpoints :
        ~(/\ e # f
          /\ rpc[f] = "parked"
          /\ lock = RenderThread(f)
          /\ WantsRegistry(e))

\* C3: while no handle has been released, concurrent new_or_open calls
\* construct at most one Router, none of them fails, and every handle
\* returned refers to that Router.
C3_OneRouter ==
    nrel = 0
    => /\ Len(arc) <= 1
       /\ \A p \in Threads :
             /\ ppc[p] \notin {"panicked", "crashed"}
             /\ hold[p][Null] = 0
             /\ \A a \in ArcIds : hold[p][a] > 0 => Alive(a)

\* C4: a Router on which a handle is held is alive, and no Router is
\* dropped more than once.
C4_AliveWhileHeld ==
    \A a \in 1..Len(arc) :
        /\ (\E p \in Threads : hold[p][a] > 0) => arc[a].state = "live"
        /\ arc[a].drops <= 1

\* C5: a new_or_open that reads the back-reference from the slot, or
\* increments the count behind it, does so while the Router it refers to has
\* not begun to be dropped.
C5_NoTouchAfterDestroy ==
    [][\A p \in Threads :
          /\ (ppc[p] = "j_read" /\ ppc'[p] = "j_inc" /\ slot[pmem[p]] # Null)
             => Alive(slot[pmem[p]])
          /\ (ppc[p] = "j_inc" /\ ppc'[p] # "j_inc" /\ pptr[p] # Null)
             => Alive(pptr[p])]_vars

\* C6: the plugin instances alive at the same time resolve, through the
\* slot of the segment each has mapped, to the same Router.
C6_OneRouterPerProcess ==
    \A i \in Instances, j \in Instances :
        (inst[i].state = "alive" /\ inst[j].state = "alive")
        => RouterOf(i) = RouterOf(j)

\* C7: on a channel c with one receiving instance r and no frame discarded
\* by a channel (re)selection, the frames written to r's output, then those
\* in r's buffer, then those queued on c, are the frames of the blocks sent
\* on c, in send order.
C7_Fifo ==
    \A r \in Endpoints, c \in Ids :
        (/\ clean
         /\ fed[r] = {c}
         /\ \A f \in Endpoints \ {r} : c \notin fed[f])
        => Merge(played[r] \o store[r] \o QueueRuns(channels[c])) = SentRuns(c, 1)

C7_Witness ==
    \E r \in Endpoints, c \in Ids :
        /\ clean
        /\ fed[r] = {c}
        /\ \A f \in Endpoints \ {r} : c \notin fed[f]
        /\ Len(played[r]) >= 2
        /\ store[r] # <<>>
        /\ channels[c] # <<>>

\* C8: once set_channel(new_id) has returned, the instance's buffer holds
\* no frame received from another channel than new_id.
C8_NoStaleAfterSwitch ==
    \A e \in Endpoints :
        (cpc[e] = "idle" /\ uuid[e] # None) => Stale(e, uuid[e]) = {}

\* C9: right after a set_channel(new_id) that ran without interleaving, the
\* buffer is empty, the selected id is new_id, the queue of new_id is empty,
\* and no block drained by a set_channel has been written to an output.
C9_SwitchDiscards ==
    /\ \A e \in Endpoints :
          (cpc[e] = "idle" /\ solo[e])
          => /\ store[e] = <<>>
             /\ uuid[e] = carg[e]
             /\ carg[e] \in Registered => channels[carg[e]] = <<>>
    /\ drained \cap PlayedBlocks = {}

C9_Witness ==
    \E e \in Endpoints :
        /\ cpc[e] = "idle"
        /\ solo[e]
        /\ uuid[e] \in Registered
        /\ \E k \in drained : sentOn[k][1] = uuid[e]

\* C10: after the fill step of a Receiver render, the fill ran only if the
\* buffer held fewer than LOW_MARK frames on entry; if it ran, the buffer
\* holds at least HIGH_MARK frames or the last try_recv found the queue
\* empty; if it did not run, no block was taken from the channel.
C10_Watermark ==
    \A e \in Endpoints :
        rpc[e] = "out"
        => /\ fillg[e].ran => fillg[e].entry < LOW_MARK
           /\ fillg[e].ran => (StoreLen(store[e]) >= HIGH_MARK \/ fillg[e].empty)
           /\ ~fillg[e].ran => (fillg[e].took = 0 /\ StoreLen(store[e]) = fillg[e].entry)
           /\ fillg[e].entry >= LOW_MARK => ~fillg[e].ran

C10_Witness ==
    \E e \in Endpoints :
        /\ rpc[e] = "out"
        /\ fillg[e].ran
        /\ fillg[e].took > 1
        /\ ~fillg[e].empty
        /\ StoreLen(store[e]) >= HIGH_MARK

\* C11: a Receiver render that reaches its output step with fewer buffered
\* frames than the output length writes no frame, removes none from the
\* buffer and logs one underrun; no other step of a render logs an underrun.
C11_UnderrunLeavesOutput ==
    [][\A e \in Endpoints :
          /\ (/\ rpc[e] = "out"
               /\ rpc'[e] # "out"
               /\ StoreLen(store[e]) < blockLen[e])
              => (/\ played'[e] = played[e]
                  /\ store'[e] = store[e]
                  /\ out' = [who |-> e, log |-> "underrun", frames |-> <<>>])
          /\ (/\ rpc'[e] # rpc[e]
               /\ ~(rpc[e] = "out" /\ StoreLen(store[e]) < blockLen[e]))
              => out'.log # "underrun"]_vars

C11_Witness ==
    /\ out.log = "underrun"
    /\ out.who \in Endpoints
    /\ store[out.who] # <<>>
    /\ played[out.who] # <<>>

\* C12: a Receiver render that reaches its output step with at least as
\* many buffered frames as the output length n writes n frames; those
\* frames followed by the buffer left are the buffer as it was, in order;
\* nothing is logged.
C12_PopsFront ==
    [][\A e \in Endpoints :
          (/\ rpc[e] = "out"
           /\ rpc'[e] # "out"
           /\ StoreLen(store[e]) >= blockLen[e])
          => (/\ out'.who = e
              /\ out'.log = None
              /\ StoreLen(out'.frames) = blockLen[e]
              /\ StoreLen(store'[e]) = StoreLen(store[e]) - blockLen[e]
              /\ Merge(out'.frames \o store'[e]) = Merge(store[e]))]_vars

C12_Witness ==
    /\ out.who \in Endpoints
    /\ Len(out.frames) >= 2
    /\ store[out.who] # <<>>

\* C19: every registered channel's queue holds at most Capacity blocks.
C19_QueueBounded ==
    \A c \in Registered : Len(channels[c]) <= Capacity

C19_Witness ==
    \E c \in Registered :
        /\ Len(channels[c]) = Capacity
        /\ \E e \in Endpoints : rpc[e] = "parked" /\ rch[e] = c

\* C13: a new_channel_with_id(id) on a registered id leaves the channel
\* under id as it was: the same Channels, the same queued blocks.
C13_WithIdIdempotent ==
    [][(/\ last'.op = "new_channel_with_id"
        /\ last'.id \in Registered)
       => (/\ made'[last'.id] = made[last'.id]
           /\ channels'[last'.id] = channels[last'.id])]_vars

\* C15: the ids new_channel has returned are pairwise distinct, and a
\* new_channel call returns an id that was not registered, adds an empty
\* channel under it and leaves every other channel as it was.
C15_NewChannelFresh ==
    /\ [](\A i, j \in 1..Len(issued) : i # j => issued[i] # issued[j])
    /\ [][last'.op = "new_channel"
          => (/\ last'.res \notin Registered
              /\ DOMAIN channels' = Registered \cup {last'.res}
              /\ channels'[last'.res] = <<>>
              /\ \A c \in Registered : channels'[c] = channels[c])]_vars

C15_Witness ==
    /\ last.op = "new_channel"
    /\ Len(issued) = 2
    /\ \E c \in Registered : channels[c] # <<>>

\* C16: channel, rx or tx on an id under which no channel was ever made
\* returns nothing, leaves the map and the queues as they were, and leaves
\* the registry lock free.
C16_LookupMiss ==
    [][(/\ last'.op \in {"channel", "rx", "tx"}
        /\ made[last'.id] = 0)
       => (/\ last'.res = None
           /\ channels' = channels
           /\ lock' = Free)]_vars

C16_Witness ==
    /\ last.op \in {"channel", "rx", "tx"}
    /\ last.res = None
    /\ made[last.id] = 0
    /\ lock = Free
    /\ \E c \in Registered : channels[c] # <<>>

\* C14: under load_state calls of the instances, in any interleaving, no
\* id ever gets a second channel: a channel registered under an id is not
\* replaced.
C14_LoadNeverReplaces ==
    \A id \in Ids : made[id] <= 1

\* C17: a step of a render call of an instance whose selected id is none,
\* or is not registered, changes no queue, leaves the instance's buffer as
\* it was and writes no frame to the output.
C17_NoChannelNoOp ==
    [][\A e \in Endpoints :
          (/\ rpc'[e] # rpc[e]
           /\ uuid[e] \notin Registered)
          => (/\ channels' = channels
              /\ store'[e] = store[e]
              /\ played'[e] = played[e]
              /\ out'.frames = <<>>)]_vars

C17_Witness ==
    \E e \in Endpoints, f \in Endpoints :
        /\ uuid[e] = None
        /\ mode[e] = "Sender"
        /\ rpc[e] = "tx"
        /\ uuid[f] = None
        /\ out = Logs(f, "underrun")
        /\ Registered # {}

\* C18: a load_state whose blob does not deserialize logs the failure and
\* leaves the instance with no channel selected, in Receiver mode, and the
\* channels as they were.
C18_BadBlobDefaults ==
    [][\A e \in Endpoints :
          (/\ nloads' = nloads + 1
           /\ last'.who = e
           /\ last'.op = "load_state"
           /\ last'.res = FALSE)
          => (/\ out' = Logs(e, "error reading state")
              /\ channels' = channels
              /\ cpc'[e] = "idle"
              /\ uuid'[e] = None
              /\ mode'[e] = "Receiver")]_vars

\* instance e has selected a channel that another instance, in Sender mode,
\* has selected too
HasSender(e) ==
    /\ uuid[e] # None
    /\ \E f \in Endpoints \ {e} : mode[f] = "Sender" /\ uuid[f] = uuid[e]

\* C20: after a render of a Receiver on a channel with a Sender has logged
\* an underrun, a later render of that Receiver writes frames to the output
\* (unless the channel loses its Sender, the Receiver leaves the channel, or
\* the blocks of the behaviour have all been sent).
C20_UnderrunEnds ==
    \A e \in Endpoints :
        [](( /\ out = [who |-> e, log |-> "underrun", frames |-> <<>>]
             /\ HasSender(e))
           => <>(\/ (out.who = e /\ out.frames # <<>>)
                 \/ ~HasSender(e)
                 \/ nblocks = MaxSends))

\* every handle handed out under the name has been released and the drop
\* that the last release ran has returned
AllReleased ==
    /\ Len(arc) > 0
    /\ \A p \in Threads :
          /\ ppc[p] \notin {"c_store", "d_drop"}
          /\ \A a \in ArcIds \cup {Null} : hold[p][a] = 0

\* C21: a new_or_open that begins once every handle under the name has been
\* released takes the creator path: the name is free, and the call
\* constructs a new Router, on a new segment, that is none of the destroyed
\* ones.
C21_ReopenCreates ==
    [][\A p \in Threads :
          (AllReleased /\ ppc[p] = "idle" /\ nopens' = nopens + 1
           /\ ppc'[p] # "idle")
          => /\ named = 0
             /\ ppc'[p] = "c_store"
             /\ Len(arc') = Len(arc) + 1
             /\ pptr'[p] = Len(arc')
             /\ named' = arc'[pptr'[p]].seg
             /\ arc'[pptr'[p]] = NewArc(Len(arc'))
             /\ \A a \in 1..Len(arc) : arc'[a] = arc[a] /\ arc[a].state = "freed"]_vars

\* a second Router has just been constructed by a new_or_open that began
\* after the first one's last handle was released and its drop returned
C21_Witness ==
    /\ Len(arc) = 2
    /\ arc[1].state = "freed"
    /\ arc[1].drops = 1
    /\ named = 2
    /\ slot[2] = Null
    /\ \E p \in Threads : ppc[p] = "c_store" /\ pptr[p] = 2
    /\ \A p \in Threads : \A a \in ArcIds \cup {Null} : hold[p][a] = 0
    /\ \A p \in Threads : ppc[p] \in {"idle", "c_store"}

\* C22: an instance restored by load_state from the bytes save_state wrote
\* for an instance on the same Router has, once load_state has returned, the
\* mode and the selected id the saved instance had.
C22_SaveLoadRoundTrip ==
    \A e \in Endpoints :
        (loaded[e] # 0 /\ cpc[e] = "idle")
        => /\ mode[e] = saved[loaded[e]].mode
           /\ uuid[e] = saved[loaded[e]].uuid

\* the length of the largest block sent so far on channel c (0: none)
MaxLenOn(c) ==
    LET lens == {sentOn[k][2] : k \in {j \in 1..nblocks : sentOn[j][1] = c}}
    IN IF lens = {} THEN 0 ELSE CHOOSE n \in lens : \A m \in lens : m <= n

\* C23: an instance's buffer holds fewer than HIGH_MARK frames plus the
\* length of the largest block sent so far on the channel it has selected.
C23_BufferBounded ==
    \A e \in Endpoints :
        StoreLen(store[e])
            < HIGH_MARK + (IF uuid[e] = None THEN 0 ELSE MaxLenOn(uuid[e]))
====
